---------------------------- MODULE Spec2Model ----------------------------
(***************************************************************************)
(* A model of lib/Mandelbrot.js: the Mandelbrot class, its render()        *)
(* entry point, the worker-based and the direct rendering strategies, the  *)
(* escape-time loop and the pixel shader.                                  *)
(*                                                                         *)
(* JavaScript runs every handler to completion, so each handler (a call    *)
(* of render(), one delivery of a worker message, one expiry of a timer)   *)
(* is one action.  A worker runs in its own thread: one turn of the        *)
(* column loop of _baseRender inside a worker is one action.               *)
(*                                                                         *)
(* The host and the collaborators are taken as follows.  The canvas keeps  *)
(* the size it has at construction.  A worker handed rConfig by            *)
(* postMessage works on its own copy; terminate() stops it and discards    *)
(* the messages it has posted and that were not yet delivered.  The        *)
(* viewport controller assigns the public fields at any time; the mouse    *)
(* handlers, one such controller, are not modelled.                        *)
(*                                                                         *)
(* Numbers: the source computes in IEEE doubles.  The model computes in    *)
(* fixed point with Q units per 1.0, in the order of operations of the     *)
(* source, rounding every product and quotient down.                       *)
(***************************************************************************)
EXTENDS Integers, Sequences, FiniteSets

\* ------------------------------------------------------------- bounds

MaxW    == 3   \* canvas widths 1..MaxW
MaxH    == 2   \* canvas heights 1..MaxH
MaxIter == 3   \* iteration caps 0..MaxIter
MaxPar  == 2   \* parallelism 1..MaxPar
MaxGen  == 2   \* calls of render() in one behaviour
MaxEdit == 1   \* assignments to the public fields in one behaviour

\* Fixed-point resolution standing for the double precision Numbers.
Q == 256

\* ------------------------------------------------------ shader modes

BLUE    == 0
WHITE   == 1
HIST    == 2
INTHIST == 3
shaderModes   == {BLUE, WHITE, HIST, INTHIST}
defaultShader == BLUE
\* The mode values a caller may store in this.shader: the four named ones
\* and one that is none of them.
Modes == 0 .. 4

\* ------------------------------------------------ fixed-point helpers

FMul(a, b) == (a * b) \div Q
FDiv(a, b) == (a * Q) \div b
FInt(n)    == n * Q

\* -------------------------------------------------------- _baseRender

\* var widthScalar = 3.5/scale
WidthScalar(c)  == FDiv((35 * Q) \div 10, FInt(c.scale))
\* var heightScalar = (3.5*height/width)/scale
HeightScalar(c) ==
    FDiv(FDiv(FMul((35 * Q) \div 10, FInt(c.height)), FInt(c.width)), FInt(c.scale))

\* var x0 = ((widthScalar/width)*(Tx)) - widthScalar/1.4, Tx = Px-(xDelta*scale)
X0(c, Px) ==
    LET Tx == FInt(Px) - FMul(FInt(c.xDelta), FInt(c.scale))
    IN  FMul(FDiv(WidthScalar(c), FInt(c.width)), Tx)
          - FDiv(WidthScalar(c), (14 * Q) \div 10)

\* var y0 = ((heightScalar/height)*(Ty)) - heightScalar/2, Ty = Py-(yDelta*scale)
Y0(c, Py) ==
    LET Ty == FInt(Py) - FMul(FInt(c.yDelta), FInt(c.scale))
    IN  FMul(FDiv(HeightScalar(c), FInt(c.height)), Ty)
          - FDiv(HeightScalar(c), FInt(2))

\* One test of the while condition: x*x + y*y < 4 && iteration < iterations
LoopCond(x, y, iteration, iterations) ==
    FMul(x, x) + FMul(y, y) < FInt(4) /\ iteration < iterations

\* The while loop: the value of `iteration` when it exits.
RECURSIVE EscapeLoop(_, _, _, _, _, _)
EscapeLoop(x, y, x0, y0, iteration, iterations) ==
    IF LoopCond(x, y, iteration, iterations)
    THEN EscapeLoop(FMul(x, x) - FMul(y, y) + x0,
                    FMul(FInt(2), FMul(x, y)) + y0,
                    x0, y0, iteration + 1, iterations)
    ELSE iteration

EscapeTime(c, Px, Py) == EscapeLoop(0, 0, X0(c, Px), Y0(c, Py), 0, c.iterations)

\* The quotient without the test for the cap: a pixel that used all turns
\* gets K/K.
IntensityNoCapTest(iteration, iterations) ==
    [num |-> iteration, den |-> iterations]

\* var intensity = ((iteration==iterations) ? 0 : iteration)/iterations
\* The quotient n/K is kept as the pair (num, den); den = 0 is 0/0 = NaN.
Intensity(iteration, iterations) ==
    [num |-> IF iteration = iterations THEN 0 ELSE iteration, den |-> iterations]

\* The inner for loop: the line of one column, rows 0..height-1.
Line(c, Px) ==
    [k \in 1 .. c.height |-> Intensity(EscapeTime(c, Px, k - 1), c.iterations)]

\* The columns the outer for loop visits from Px on: Px, Px+xSkip, ... < width.
RECURSIVE ColumnsFrom(_, _, _)
ColumnsFrom(Px, width, xSkip) ==
    IF Px < width THEN <<Px>> \o ColumnsFrom(Px + xSkip, width, xSkip) ELSE <<>>

\* The line declared outside the column loop: it is never emptied, and a
\* column's message starts with the rows of the worker's earlier columns.
RECURSIVE LinesUpTo(_, _, _)
LinesUpTo(c, from, Px) ==
    IF from > Px THEN <<>> ELSE Line(c, from) \o LinesUpTo(c, from + c.xSkip, Px)

WorkerMessageLineNotReset(c, Px) ==
    [Px |-> Px, line |-> LinesUpTo(c, c.xInit, Px), heightScalar |-> HeightScalar(c)]

\* postMessage({Px:Px,line:line,heightScalar:heightScalar})
WorkerMessage(c, Px) ==
    [Px |-> Px, line |-> Line(c, Px), heightScalar |-> HeightScalar(c)]


\* ------------------------------------------------------- _pixelShader

\* A colour channel: 255 times a function of the intensity.  "lin" is the
\* intensity itself (255*intensity, kept as the quotient 255*num/den);
\* "int1" and "int2" are the two logarithmic transforms of the BLUE mode,
\* kept as terms over the intensity they are applied to.
Channel(fn, intensity) ==
    [fn  |-> fn,
     num |-> IF fn = "lin" THEN 255 * intensity.num ELSE intensity.num,
     den |-> intensity.den]

NoChannel == [fn |-> "none", num |-> 0, den |-> 1]

\* What a call of _pixelShader yields: a pixel object, undefined (the
\* switch is left by break and the function ends without a return), or a
\* thrown ReferenceError (the default branch reads the undeclared
\* identifier `intentisty`).
PixelShader(Px, Py, intensity, mode) ==
    CASE mode = BLUE ->
            [kind |-> "pixel", x |-> Px, y |-> Py,
             r |-> Channel("int1", intensity), g |-> Channel("int1", intensity),
             b |-> Channel("int2", intensity), a |-> 255]
      [] mode = WHITE ->
            [kind |-> "pixel", x |-> Px, y |-> Py,
             r |-> Channel("lin", intensity), g |-> Channel("lin", intensity),
             b |-> Channel("lin", intensity), a |-> 255]
      [] mode = HIST \/ mode = INTHIST ->
            [kind |-> "undefined", x |-> 0, y |-> 0,
             r |-> NoChannel, g |-> NoChannel, b |-> NoChannel, a |-> 0]
      [] OTHER ->
            [kind |-> "ReferenceError", x |-> 0, y |-> 0,
             r |-> NoChannel, g |-> NoChannel, b |-> NoChannel, a |-> 0]

\* ------------------------------------------------------------- state

VARIABLES
    \* the fields of the Mandelbrot object
    iterations, scale, xDelta, yDelta, parallelism, heightScalar,
    shader, renderParallel, renderThreads, width, height,
    \* the canvas2d collaborator: its size, its pixel buffer, what it shows
    canvasW, canvasH, fb, display,
    \* the host: window.Worker, the pending setTimeout callbacks
    hasWorker, timers,
    \* bookkeeping: calls of render(), calls of clearBuffer(), assignments
    \* to the public fields, and the outcome of the most recent render()
    \* call or message callback
    gen, clears, edits, last

vars == <<iterations, scale, xDelta, yDelta, parallelism, heightScalar,
          shader, renderParallel, renderThreads, width, height,
          canvasW, canvasH, fb, display, hasWorker, timers,
          gen, clears, edits, last>>

fieldVars == <<iterations, scale, xDelta, yDelta, parallelism, shader,
               renderParallel>>

\* The values the viewport controller assigns to the public fields.
Scales == {1, 2}
Pans   == {0, 1}

\* A cell of the canvas buffer; `gen` is the render() call whose task
\* produced the pixel (0: none), which the canvas itself does not store.
BlankCell == [r |-> NoChannel, g |-> NoChannel, b |-> NoChannel, a |-> 0, gen |-> 0]

\* canvas2d.clearBuffer()
ClearBuffer(w, h) == [x \in 0 .. w - 1 |-> [y \in 0 .. h - 1 |-> BlankCell]]

\* this.heightScalar: null after construction, a Number from a worker
\* message, undefined from the direct path's callback argument.
HsNull      == [tag |-> "null", val |-> 0]
HsUndefined == [tag |-> "undefined", val |-> 0]
HsNum(v)    == [tag |-> "number", val |-> v]

NoOutcome == [op |-> "none", mode |-> -1, out |-> "ok", undef |-> FALSE]

\* constructor(canvas2D); the canvas size and the presence of
\* window.Worker are the host's.  The constructor's iteration cap of 256
\* is scaled down to the largest cap of the model.
Init ==
    /\ iterations = MaxIter
    /\ scale = 1
    /\ xDelta = 0
    /\ yDelta = 0
    /\ parallelism = 2
    /\ heightScalar = HsNull
    /\ shader = defaultShader
    /\ renderParallel = TRUE
    /\ renderThreads = <<>>
    /\ width = 0    \* this.width, this.height: not assigned yet
    /\ height = 0
    /\ canvasW \in 1 .. MaxW
    /\ canvasH \in 1 .. MaxH
    /\ fb = ClearBuffer(canvasW, canvasH)
    /\ display = ClearBuffer(canvasW, canvasH)
    /\ hasWorker \in BOOLEAN
    /\ timers = 0
    /\ gen = 0
    /\ clears = 0
    /\ edits = 0
    /\ last = NoOutcome

\* ------------------------------------------------------- compositing

\* canvas2d.drawBufferedPixel(pixel): the cell at (pixel.x, pixel.y) takes
\* the pixel's colour; g is the render() call the running task belongs to.
DrawBufferedPixel(buf, p, g) ==
    IF p.x \in DOMAIN buf /\ p.y \in DOMAIN buf[p.x]
    THEN [buf EXCEPT ![p.x][p.y] =
             [r |-> p.r, g |-> p.g, b |-> p.b, a |-> p.a, gen |-> g]]
    ELSE buf

\* line.map((intensity,idx) => drawBufferedPixel(_pixelShader(Px, idx,
\* intensity, this.shader))): rows k..Len(line), stopping at the first throw.
\* strict: whether the canvas throws a TypeError on an undefined pixel (it
\* is the canvas library's choice) or ignores it.
RECURSIVE DrawRows(_, _, _, _, _, _, _)
DrawRows(buf, Px, line, k, mode, g, strict) ==
    IF k > Len(line)
    THEN [fb |-> buf, out |-> "ok"]
    ELSE LET p == PixelShader(Px, k - 1, line[k], mode)
         IN  CASE p.kind = "ReferenceError" -> [fb |-> buf, out |-> "ReferenceError"]
               [] p.kind = "undefined" /\ strict -> [fb |-> buf, out |-> "TypeError"]
               [] p.kind = "undefined" /\ ~strict ->
                     DrawRows(buf, Px, line, k + 1, mode, g, strict)
               [] OTHER ->
                     DrawRows(DrawBufferedPixel(buf, p, g), Px, line, k + 1,
                              mode, g, strict)

\* A callback that yields after the first row of the line it maps.
DrawColumnFirstRow(buf, Px, line, mode, g, strict) ==
    DrawRows(buf, Px, SubSeq(line, 1, 1), 1, mode, g, strict)

DrawColumn(buf, Px, line, mode, g, strict) ==
    DrawRows(buf, Px, line, 1, mode, g, strict)

\* Whether drawBufferedPixel was handed undefined while the line was mapped.
PassedUndefined(line, mode) ==
    Len(line) > 0 /\ PixelShader(0, 0, line[1], mode).kind = "undefined"

\* The flush test without its second disjunct.
FlushCondModulusOnly(Px, w, xSkip) ==
    w * xSkip > 0 /\ (100 * Px) % (w * xSkip) <= 100

\* e.data.Px % (width*xSkip/100) <= 1 || e.data.Px > width-xSkip-1
\* The remainder by the real width*xSkip/100 is taken exactly, on both
\* sides times 100; a modulus of 0 gives NaN, and NaN <= 1 is false.
FlushCond(Px, w, xSkip) ==
    \/ (w * xSkip > 0 /\ (100 * Px) % (w * xSkip) <= 100)
    \/ Px > w - xSkip - 1

\* e.data.Px >= width-(xSkip-i)
TerminateCond(Px, w, xSkip, i) == Px >= w - (xSkip - i)

\* The value of `i` a message callback reads: `var i` is one variable of
\* the _renderWorkers call, shared by the callbacks of all its workers, and
\* the for loop has left it at xSkip before any message is delivered.
CallbackI(xSkip) == xSkip

\* ------------------------------------------------------------ render()

\* rConfig with rConfig.xInit = i assigned.
WithXInit(c, i) ==
    [f \in DOMAIN c \cup {"xInit"} |-> IF f = "xInit" THEN i ELSE c[f]]

\* rConfig.xSkip left as render() set it.
WithXSkipUnchanged(c, n) == c

WithXSkip(c, n) == [c EXCEPT !.xSkip = n]

\* A worker that reads the caller's rConfig object itself instead of its
\* own copy: every worker sees the xInit assigned last.
NewWorkerSharedConfig(c, i, g) ==
    [gen |-> g, data |-> WithXInit(c, c.xSkip - 1), Px |-> c.xSkip - 1,
     queue |-> <<>>, sent |-> <<>>, alive |-> TRUE, i |-> c.xSkip]

\* new SyntheticWorker(this._baseRender, callback) followed by
\* postMessage(rConfig): the worker holds its own copy of rConfig as it was
\* when posted, stands before its first column, and has sent nothing.
\* `sent` lists the columns the worker has posted so far.
NewWorker(c, i, g) ==
    [gen |-> g, data |-> WithXInit(c, i), Px |-> i, queue |-> <<>>,
     sent |-> <<>>, alive |-> TRUE, i |-> CallbackI(c.xSkip)]

\* The for loop of _renderWorkers without the while loop before it: the
\* new handles overwrite the first xSkip entries of renderThreads, and an
\* earlier handle beyond them stays, running.
SpawnWorkersNoPop(c, g) ==
    [k \in 1 .. (IF Len(renderThreads) > c.xSkip THEN Len(renderThreads) ELSE c.xSkip) |->
        IF k <= c.xSkip THEN NewWorker(c, k - 1, g) ELSE renderThreads[k]]

\* The for loop of _renderWorkers, after the while loop has popped and
\* terminated every handle of renderThreads.
SpawnWorkers(c, g) == [k \in 1 .. c.xSkip |-> NewWorker(c, k - 1, g)]

\* _renderWorkers on a buffer render() has not cleared.
RenderWorkersNoClear(c, cleared) ==
    /\ renderThreads' = SpawnWorkers(c, gen + 1)
    /\ fb' = fb
    /\ last' = [op |-> "render", mode |-> -1, out |-> "ok", undef |-> FALSE]
    /\ UNCHANGED <<heightScalar, timers, display>>

\* _renderWorkers(rConfig)
RenderWorkers(c, cleared) ==
    /\ renderThreads' = SpawnWorkers(c, gen + 1)
    /\ fb' = cleared
    /\ last' = [op |-> "render", mode |-> -1, out |-> "ok", undef |-> FALSE]
    /\ UNCHANGED <<heightScalar, timers, display>>

\* The callback of _renderDirect over the columns _baseRender hands it, one
\* after the other on the caller's thread, up to the first throw.
\* st.timed lists the columns whose callback reached the test of the clock.
RECURSIVE DirectLoop(_, _, _, _, _, _)
DirectLoop(st, cols, c, mode, g, strict) ==
    IF cols = <<>>
    THEN st
    ELSE LET Px == Head(cols)
             d  == DrawColumn(st.fb, Px, Line(c, Px), mode, g, strict)
         IN  IF d.out # "ok"
             THEN [st EXCEPT !.fb = d.fb, !.out = d.out]
             ELSE DirectLoop([fb    |-> d.fb,
                              hs    |-> HsUndefined,
                              timed |-> st.timed \cup {Px},
                              out   |-> "ok"],
                             Tail(cols), c, mode, g, strict)

\* _renderDirect(rConfig).  slow: the columns at whose callback more than
\* 50 ms have passed since `timeout`; each schedules one flush by
\* setTimeout, and none of them runs before render() has returned.
RenderDirect(c, cleared, strict) ==
    LET conf == WithXInit(WithXSkip(c, 1), 0)
        cols == ColumnsFrom(conf.xInit, conf.width, conf.xSkip)
        st   == DirectLoop([fb |-> cleared, hs |-> heightScalar,
                            timed |-> {}, out |-> "ok"],
                           cols, conf, shader, gen + 1, strict)
    IN  /\ fb' = st.fb
        /\ heightScalar' = st.hs
        /\ \E slow \in SUBSET st.timed : timers' = timers + Cardinality(slow)
        /\ last' = [op |-> "render", mode |-> shader, out |-> st.out,
                    undef |-> cols # <<>> /\ PassedUndefined(Line(conf, 0), shader)]
        /\ UNCHANGED <<renderThreads, display>>

\* The rConfig object render() builds.
RConfig(w, h) ==
    [heightScalar |-> heightScalar, iterations |-> iterations, scale |-> scale,
     width |-> w, height |-> h, xDelta |-> xDelta, yDelta |-> yDelta,
     xSkip |-> parallelism]

\* render()
Render ==
    /\ gen < MaxGen
    /\ LET rConfig == RConfig(canvasW, canvasH)
           cleared == ClearBuffer(canvasW, canvasH)
       IN  IF hasWorker /\ renderParallel
           THEN RenderWorkers(rConfig, cleared)
           ELSE \E strict \in BOOLEAN : RenderDirect(rConfig, cleared, strict)
    /\ width' = canvasW
    /\ height' = canvasH
    /\ clears' = clears + 1
    /\ gen' = gen + 1
    /\ UNCHANGED edits
    /\ UNCHANGED <<fieldVars, canvasW, canvasH, hasWorker>>

\* ------------------------------------------------------------- workers

\* A column loop that reads the viewport fields of the Mandelbrot object as
\* they are now instead of the values its own rConfig holds.
WorkerStepLiveViewport(k) ==
    LET w    == renderThreads[k]
        live == [w.data EXCEPT !.iterations = iterations, !.scale = scale,
                               !.xDelta = xDelta, !.yDelta = yDelta]
    IN  /\ w.alive
        /\ w.Px < w.data.width
        /\ renderThreads' =
             [renderThreads EXCEPT ![k].queue = Append(@, WorkerMessage(live, w.Px)),
                                   ![k].sent = Append(@, w.Px),
                                   ![k].data = live,
                                   ![k].Px = @ + w.data.xSkip]
        /\ UNCHANGED <<fieldVars, heightScalar, width, height, canvasW, canvasH,
                       fb, display, hasWorker, timers, gen, clears, edits, last>>

\* A column loop that advances by one column instead of xSkip.
WorkerStepUnitStride(k) ==
    LET w == renderThreads[k]
    IN  /\ w.alive
        /\ w.Px < w.data.width
        /\ renderThreads' =
             [renderThreads EXCEPT ![k].queue = Append(@, WorkerMessage(w.data, w.Px)),
                                   ![k].sent = Append(@, w.Px),
                                   ![k].Px = @ + 1]
        /\ UNCHANGED <<fieldVars, heightScalar, width, height, canvasW, canvasH,
                       fb, display, hasWorker, timers, gen, clears, edits, last>>

\* One turn of the outer for loop of _baseRender in worker k: the column
\* at Px is computed and posted, and Px advances by xSkip.
WorkerStep(k) ==
    LET w == renderThreads[k]
    IN  /\ w.alive
        /\ w.Px < w.data.width
        /\ renderThreads' =
             [renderThreads EXCEPT ![k].queue = Append(@, WorkerMessage(w.data, w.Px)),
                                   ![k].sent = Append(@, w.Px),
                                   ![k].Px = @ + w.data.xSkip]
        /\ UNCHANGED <<fieldVars, heightScalar, width, height, canvasW, canvasH,
                       fb, display, hasWorker, timers, gen, clears, edits, last>>

\* worker.terminate(): the worker stops and its undelivered messages are
\* discarded.
Terminate(w) == [w EXCEPT !.alive = FALSE, !.queue = <<>>]

\* The message callback of worker k for the oldest undelivered message.
OnMessage(k) ==
    LET w == renderThreads[k]
    IN  /\ w.alive
        /\ w.queue # <<>>
        /\ \E strict \in BOOLEAN :
             LET e      == Head(w.queue)
                 d      == DrawColumn(fb, e.Px, e.line, shader, w.gen, strict)
                 popped == [renderThreads EXCEPT ![k].queue = Tail(@)]
                 flush  == FlushCond(e.Px, w.data.width, w.data.xSkip)
                 term   == TerminateCond(e.Px, w.data.width, w.data.xSkip, w.i)
                 \* renderThreads[i] of the source is element i+1 here
                 target == w.i + 1
             IN  /\ fb' = d.fb
                 /\ IF d.out # "ok"
                    THEN /\ renderThreads' = popped
                         /\ last' = [op |-> "message", mode |-> shader, out |-> d.out,
                                     undef |-> PassedUndefined(e.line, shader)]
                         /\ UNCHANGED <<heightScalar, display>>
                    ELSE /\ heightScalar' = HsNum(e.heightScalar)
                         /\ display' = IF flush THEN d.fb ELSE display
                         /\ renderThreads' =
                              IF term /\ target \in DOMAIN popped
                              THEN [popped EXCEPT ![target] = Terminate(@)]
                              ELSE popped
                         /\ last' = [op |-> "message", mode |-> shader,
                                     out |-> IF term /\ target \notin DOMAIN popped
                                             THEN "TypeError" ELSE "ok",
                                     undef |-> PassedUndefined(e.line, shader)]
        /\ UNCHANGED <<fieldVars, width, height, canvasW, canvasH, hasWorker,
                       timers, gen, clears, edits>>

\* The callback of setTimeout(..., 50) of _renderDirect: flushBuffer().
TimerFire ==
    /\ timers > 0
    /\ timers' = timers - 1
    /\ display' = fb
    /\ UNCHANGED <<fieldVars, heightScalar, renderThreads, width, height,
                   canvasW, canvasH, fb, hasWorker, gen, clears, edits, last>>

\* ------------------------------------------- the viewport controller

restVars == <<heightScalar, renderThreads, width, height, canvasW, canvasH,
              fb, display, hasWorker, timers, gen, clears, last>>

\* A field that only render() reads is not assigned after the last
\* render() of a behaviour.
CanEdit == edits < MaxEdit /\ gen < MaxGen

SetIterations(k) ==
    /\ CanEdit /\ k # iterations
    /\ iterations' = k /\ edits' = edits + 1
    /\ UNCHANGED <<scale, xDelta, yDelta, parallelism, shader, renderParallel, restVars>>

SetScale(s) ==
    /\ CanEdit /\ s # scale
    /\ scale' = s /\ edits' = edits + 1
    /\ UNCHANGED <<iterations, xDelta, yDelta, parallelism, shader, renderParallel, restVars>>

SetPan(dx, dy) ==
    /\ CanEdit /\ <<dx, dy>> # <<xDelta, yDelta>>
    /\ xDelta' = dx /\ yDelta' = dy /\ edits' = edits + 1
    /\ UNCHANGED <<iterations, scale, parallelism, shader, renderParallel, restVars>>

SetParallelism(n) ==
    /\ CanEdit /\ n # parallelism
    /\ parallelism' = n /\ edits' = edits + 1
    /\ UNCHANGED <<iterations, scale, xDelta, yDelta, shader, renderParallel, restVars>>

SetShader(m) ==
    /\ edits < MaxEdit /\ m # shader
    /\ shader' = m /\ edits' = edits + 1
    /\ UNCHANGED <<iterations, scale, xDelta, yDelta, parallelism, renderParallel, restVars>>

SetRenderParallel(b) ==
    /\ CanEdit /\ b # renderParallel
    /\ renderParallel' = b /\ edits' = edits + 1
    /\ UNCHANGED <<iterations, scale, xDelta, yDelta, parallelism, shader, restVars>>

\* ------------------------------------------------------ specification

Next ==
    \/ Render
    \/ \E k \in DOMAIN renderThreads : WorkerStep(k)
    \/ \E k \in DOMAIN renderThreads : OnMessage(k)
    \/ TimerFire
    \/ \E k \in 0 .. MaxIter : SetIterations(k)
    \/ \E s \in Scales : SetScale(s)
    \/ \E dx \in Pans, dy \in Pans : SetPan(dx, dy)
    \/ \E n \in 1 .. MaxPar : SetParallelism(n)
    \/ \E m \in Modes : SetShader(m)
    \/ \E b \in BOOLEAN : SetRenderParallel(b)

Spec == Init /\ [][Next]_vars

\* ------------------------------------------------- derived predicates

Cells == (0 .. canvasW - 1) \X (0 .. canvasH - 1)

IsBlank(cell) == cell.gen = 0

\* The latest render() took the worker path: its workers are the handles
\* of renderThreads.
IsParallelGen == renderThreads # <<>> /\ renderThreads[1].gen = gen

\* The column loop of worker w has ended and all it sent was delivered.
WorkerDone(w) == w.alive => (w.Px >= w.data.width /\ w.queue = <<>>)

\* Nothing is left to run: no worker column, no message, no timer.
AllQuiet ==
    /\ timers = 0
    /\ \A k \in DOMAIN renderThreads : WorkerDone(renderThreads[k])

ParallelComplete == IsParallelGen /\ AllQuiet

\* ---------------------------------------------------------------- C1

\* C1 (as claimed): every pixel in the framebuffer was produced by a task
\* of the latest render() call; no column of an earlier generation is
\* written after a later render() has cleared the buffer.
C1_GenerationIsolation ==
    \A c \in Cells : fb[c[1]][c[2]].gen \in {0, gen}

\* ---------------------------------------------------------------- C2

\* The positions (worker, index) at which column col was posted.
SentAt(col) ==
    {p \in (DOMAIN renderThreads) \X (1 .. MaxW + 1) :
        /\ p[2] \in DOMAIN renderThreads[p[1]].sent
        /\ renderThreads[p[1]].sent[p[2]] = col}

\* C2: the workers of one render() hold the pairwise distinct offsets
\* xInit = 0 .. N-1 with stride N; no column is posted twice or lies
\* outside [0, W); and once every worker's loop has ended, every column of
\* [0, W) has been posted exactly once.
C2_ColumnCoverage ==
    renderThreads # <<>> =>
        LET N == Len(renderThreads)
            W == renderThreads[1].data.width
        IN  /\ \A k \in 1 .. N :
                 /\ renderThreads[k].data.xInit = k - 1
                 /\ renderThreads[k].data.xSkip = N
                 /\ \A j \in DOMAIN renderThreads[k].sent :
                        renderThreads[k].sent[j] \in 0 .. W - 1
            /\ \A col \in 0 .. W - 1 : Cardinality(SentAt(col)) <= 1
            /\ (\A k \in 1 .. N : renderThreads[k].Px >= W)
                 => \A col \in 0 .. W - 1 : Cardinality(SentAt(col)) = 1

\* Two workers have shared the three columns of a canvas between them.
C2_Witness ==
    /\ Len(renderThreads) = 2
    /\ canvasW = 3
    /\ \A k \in 1 .. 2 : renderThreads[k].Px >= 3
    /\ Len(renderThreads[1].sent) = 2
    /\ Len(renderThreads[2].sent) = 1

\* ---------------------------------------------------------------- C3

\* C3 (as claimed): once a generation has run to its end without error and
\* nothing is left to run, the display shows the framebuffer: a flush has
\* followed the last pixel written.
C3_FinalImageDisplayed ==
    (gen > 0 /\ AllQuiet /\ last.out = "ok" /\ ~last.undef) => display = fb

\* ---------------------------------------------------------------- C4

\* The cell at (x, y) of the image of configuration c under shader mode
\* `mode`, drawn by generation g.  It reads the viewport, the size and the
\* iteration cap of c only: neither xSkip nor xInit.
ExpectedCell(c, x, y, mode, g) ==
    LET p == PixelShader(x, y, Intensity(EscapeTime(c, x, y), c.iterations), mode)
    IN  [r |-> p.r, g |-> p.g, b |-> p.b, a |-> p.a, gen |-> g]

\* The shader mode a cell was coloured under (-1: not coloured).
ModeOf(cell) ==
    CASE cell.r.fn = "int1" -> BLUE
      [] cell.r.fn = "lin"  -> WHITE
      [] OTHER -> -1

\* C4: when a worker generation has run to its end, the framebuffer is a
\* function of the inputs of its render() alone, whatever the order in
\* which the workers' columns arrived: with no field assigned since
\* construction, and whenever every cell was coloured under the current
\* shader mode, each cell is the cell of the image of the generation's
\* configuration.
C4_Determinism ==
    (ParallelComplete /\ (edits = 0 \/ \A c \in Cells : ModeOf(fb[c[1]][c[2]]) = shader))
      => \A c \in Cells :
            fb[c[1]][c[2]] = ExpectedCell(renderThreads[1].data, c[1], c[2], shader, gen)

\* Two workers have delivered, in some order, all columns of a 3x2 image
\* whose cells are not all alike, under the WHITE shader.
C4_Witness ==
    /\ ParallelComplete
    /\ Len(renderThreads) = 2 /\ canvasW = 3 /\ canvasH = 2
    /\ shader = WHITE
    /\ \A c \in Cells : fb[c[1]][c[2]].gen = gen
    /\ \E c, d \in Cells : fb[c[1]][c[2]].r # fb[d[1]][d[2]].r

\* ---------------------------------------------------------------- C5

\* C5: a render() on the direct path leaves in the framebuffer exactly the
\* image of its configuration, which does not depend on the parallelism:
\* the same cells C4 finds after a completed worker generation with any N.
C5_FallbackEquivalence ==
    [][(gen' = gen + 1 /\ ~(hasWorker /\ renderParallel) /\ shader \in {BLUE, WHITE})
         => \A c \in Cells :
               fb'[c[1]][c[2]] =
                   ExpectedCell(RConfig(canvasW, canvasH), c[1], c[2], shader, gen')]_vars

\* A direct render with parallelism 2 has drawn every column of a canvas
\* three columns wide.
C5_Witness ==
    /\ gen > 0 /\ ~IsParallelGen
    /\ parallelism = 2 /\ canvasW = 3
    /\ \A c \in Cells : fb[c[1]][c[2]].gen = gen

\* ---------------------------------------------------------------- C6

\* C6 (as claimed): a render() with an invalid configuration (here: an
\* iteration cap of 0) reports a configuration error, spawns or terminates
\* no worker and writes no pixel.
C6_ConfigErrorsFailFast ==
    [][(gen' = gen + 1 /\ iterations = 0)
         => /\ last'.out = "ConfigurationError"
            /\ renderThreads' = renderThreads
            /\ fb' = fb]_vars

\* ---------------------------------------------------------------- C7

\* C7 (as claimed): a handler that shades under HIST or INTHIST ends with
\* an unsupported-mode error, and hands no undefined pixel to
\* drawBufferedPixel.
C7_UnsupportedModesFailFast ==
    last.mode \in {HIST, INTHIST}
      => (last.out = "UnsupportedShaderMode" /\ ~last.undef)

\* ---------------------------------------------------------------- C8

\* C8 (as claimed): a handler that shades under a mode that is none of the
\* four named ones ends without error, the shader returning what BLUE
\* returns for the same arguments.
C8_UnknownModeFallsBack ==
    (last.mode # -1 /\ last.mode \notin shaderModes)
      => /\ last.out = "ok"
         /\ \A n \in 0 .. 1 :
              PixelShader(0, 0, [num |-> n, den |-> 2], last.mode)
                = PixelShader(0, 0, [num |-> n, den |-> 2], BLUE)

\* ---------------------------------------------------------------- C9

\* C9: for an iteration cap K >= 1, every pixel of every posted column
\* took between 1 and K turns of the escape loop, and its intensity is n/K
\* with n in 0..K-1: the number of turns when below K, and 0 when all K
\* turns were used.
C9_IntensityRange ==
    \A k \in DOMAIN renderThreads :
        LET w == renderThreads[k]
            K == w.data.iterations
        IN  K >= 1 =>
              \A j \in DOMAIN w.queue : \A row \in DOMAIN w.queue[j].line :
                  LET turns == EscapeTime(w.data, w.queue[j].Px, row - 1)
                      v     == w.queue[j].line[row]
                  IN  /\ turns \in 1 .. K
                      /\ v.den = K
                      /\ v.num \in 0 .. K - 1
                      /\ (turns = K => v.num = 0)
                      /\ (turns < K => v.num = turns)

\* A posted column holds a pixel that escaped before the cap and a pixel
\* that used all turns of a cap of at least 2.
C9_Witness ==
    \E k \in DOMAIN renderThreads :
        LET w == renderThreads[k]
        IN  /\ w.data.iterations >= 2
            /\ \E j \in DOMAIN w.queue :
                 /\ \E row \in DOMAIN w.queue[j].line : w.queue[j].line[row].num >= 1
                 /\ \E row \in DOMAIN w.queue[j].line :
                        EscapeTime(w.data, w.queue[j].Px, row - 1) = w.data.iterations

\* --------------------------------------------------------------- C10

\* C10: clearBuffer() is called by render() only, once per call, and
\* before anything of the new generation: after a render() on the worker
\* path the buffer is blank and no new worker has posted a column; after
\* one on the direct path (under BLUE or WHITE) every cell is a pixel of the
\* new generation; no cell of an earlier generation survives the call.
C10_ClearBeforeDraw ==
    [][/\ gen' = gen => clears' = clears
       /\ gen' # gen =>
            /\ clears' = clears + 1
            /\ \A c \in Cells : fb'[c[1]][c[2]].gen \in {0, gen'}
            /\ (hasWorker /\ renderParallel) =>
                 /\ \A c \in Cells : IsBlank(fb'[c[1]][c[2]])
                 /\ \A k \in DOMAIN renderThreads' :
                        /\ renderThreads'[k].gen = gen'
                        /\ renderThreads'[k].sent = <<>>
            /\ (~(hasWorker /\ renderParallel) /\ shader \in {BLUE, WHITE}) =>
                 \A c \in Cells : fb'[c[1]][c[2]].gen = gen']_vars

\* A second render() on the worker path has blanked a buffer whose earlier
\* content the display still shows.
C10_Witness ==
    /\ gen = 2 /\ clears = 2 /\ IsParallelGen
    /\ \A c \in Cells : IsBlank(fb[c[1]][c[2]])
    /\ \E c \in Cells : ~IsBlank(display[c[1]][c[2]])

\* --------------------------------------------------------------- C11

\* C11 (as claimed): in a worker generation that no later render() has
\* superseded, the message callback terminates each worker on delivery of
\* that worker's last column; so once every column of the generation has
\* been delivered and nothing is left to run, all N workers are
\* terminated.  (Stated for a canvas on which every worker owns a column,
\* with no field assigned since construction.)
C11_WorkersTerminatedOnCompletion ==
    (ParallelComplete /\ edits = 0 /\ canvasW >= Len(renderThreads))
      => \A k \in DOMAIN renderThreads : ~renderThreads[k].alive

\* --------------------------------------------------------------- C12

\* The for loop of _renderWorkers left by a throw of `new SyntheticWorker`
\* at i = j: the workers 0 .. j-1 are created and started, and their
\* callbacks read the shared `i` as the loop left it, at j.
SpawnWorkersUpTo(c, g, j) ==
    [k \in 1 .. j |-> [NewWorker(c, k - 1, g) EXCEPT !.i = j]]

\* render() on the worker path when the host fails to create worker j:
\* the buffer is cleared and the earlier handles are terminated and popped
\* as in any render(); the exception of the constructor leaves the for
\* loop, _renderWorkers and render(), none of which catches it.
RenderSpawnFails(j) ==
    /\ gen < MaxGen
    /\ hasWorker /\ renderParallel
    /\ j \in 0 .. parallelism - 1
    /\ renderThreads' = SpawnWorkersUpTo(RConfig(canvasW, canvasH), gen + 1, j)
    /\ fb' = ClearBuffer(canvasW, canvasH)
    /\ last' = [op |-> "render", mode |-> -1, out |-> "SpawnError", undef |-> FALSE]
    /\ width' = canvasW
    /\ height' = canvasH
    /\ clears' = clears + 1
    /\ gen' = gen + 1
    /\ UNCHANGED <<heightScalar, timers, display, edits>>
    /\ UNCHANGED <<fieldVars, canvasW, canvasH, hasWorker>>

\* The program on a host whose worker creation can fail.
SpawnNext ==
    \/ Next
    \/ \E j \in 0 .. MaxPar - 1 : RenderSpawnFails(j)

SpawnSpec == Init /\ [][SpawnNext]_vars

\* C12 (as claimed): a render() on the worker path raises no error to its
\* caller, whether or not a worker could be created, and leaves either
\* all N workers of the new generation running or, by the sequential
\* strategy, the complete image in the buffer.  (Stated with no field
\* assigned since construction.)
C12_SpawnFailureAbsorbed ==
    [][(gen' = gen + 1 /\ hasWorker /\ renderParallel /\ edits = 0)
         => /\ last'.out = "ok"
            /\ \/ /\ Len(renderThreads') = parallelism
                  /\ \A k \in DOMAIN renderThreads' : renderThreads'[k].gen = gen'
               \/ \A c \in Cells : fb'[c[1]][c[2]].gen = gen']_vars

\* --------------------------------------------------------------- C13

\* C13: a render() on the worker path leaves in renderThreads exactly the
\* N = parallelism handles it created, all of the new generation and
\* running, every earlier handle having been popped and terminated; and
\* while the latest render() is a worker render, renderThreads holds the N
\* handles of that generation and no other, so that at most N workers are
\* not terminated.
C13_Supersession ==
    [][/\ (gen' = gen + 1 /\ hasWorker /\ renderParallel) =>
            /\ Len(renderThreads') = parallelism
            /\ \A k \in DOMAIN renderThreads' :
                   /\ renderThreads'[k].gen = gen'
                   /\ renderThreads'[k].alive
                   /\ renderThreads'[k].data.xSkip = parallelism
       /\ IsParallelGen' =>
            /\ Len(renderThreads') = renderThreads'[1].data.xSkip
            /\ \A k \in DOMAIN renderThreads' : renderThreads'[k].gen = gen'
            /\ Cardinality({k \in DOMAIN renderThreads' : renderThreads'[k].alive})
                   <= renderThreads'[1].data.xSkip]_vars

\* A second worker render with parallelism 1 has followed a first with
\* two workers, of which the second had its column displayed before the
\* first delivered any: one handle is held, of the second generation.
C13_Witness ==
    /\ gen = 2 /\ IsParallelGen
    /\ parallelism = 1 /\ Len(renderThreads) = 1
    /\ renderThreads[1].alive
    /\ canvasW >= 2
    /\ display[1][0].gen = 1
    /\ display[0][0].gen = 0

\* --------------------------------------------------------------- C14

\* C14 (as claimed): for every column Px a worker with offset xInit and
\* stride N has posted on a canvas W wide, the test of the terminate line
\* taken with i = xInit, Px >= W - (N - xInit), holds exactly when Px is
\* the worker's last column, Px + N >= W.
C14_ThresholdIsLastColumn ==
    \A k \in DOMAIN renderThreads :
        LET w == renderThreads[k]
        IN  \A j \in DOMAIN w.sent :
                TerminateCond(w.sent[j], w.data.width, w.data.xSkip, w.data.xInit)
                  <=> (w.sent[j] + w.data.xSkip >= w.data.width)

\* --------------------------------------------------------------- C15

\* A canvas so wide that width*xSkip/100 exceeds 1 and the remainder test
\* of the flush line fails for some columns (125*2/100 = 2.5).
WideW == 125

\* constructor(canvas2D) for a canvas WideW wide and one row high, on a
\* host with workers.
WideInit ==
    /\ iterations = MaxIter
    /\ scale = 1
    /\ xDelta = 0
    /\ yDelta = 0
    /\ parallelism = 2
    /\ heightScalar = HsNull
    /\ shader = defaultShader
    /\ renderParallel = TRUE
    /\ renderThreads = <<>>
    /\ width = 0
    /\ height = 0
    /\ canvasW = WideW
    /\ canvasH = 1
    /\ fb = ClearBuffer(canvasW, canvasH)
    /\ display = ClearBuffer(canvasW, canvasH)
    /\ hasWorker = TRUE
    /\ timers = 0
    /\ gen = 0
    /\ clears = 0
    /\ edits = 0
    /\ last = NoOutcome

\* The schedule in which the workers' columns are computed and delivered
\* in the order of the columns: no message is undelivered and worker k
\* stands before the lowest column not yet computed.
InOrder(k) ==
    /\ \A j \in DOMAIN renderThreads : renderThreads[j].queue = <<>>
    /\ \A j \in DOMAIN renderThreads :
           renderThreads[j].Px < renderThreads[j].data.width
             => renderThreads[k].Px <= renderThreads[j].Px

\* One render() of the wide canvas, its workers scheduled in column order.
WideNext ==
    \/ (gen = 0 /\ Render)
    \/ \E k \in DOMAIN renderThreads : InOrder(k) /\ WorkerStep(k)
    \/ \E k \in DOMAIN renderThreads : OnMessage(k)

WideSpec == WideInit /\ [][WideNext]_vars

\* A message callback of the latest worker generation that draws one of
\* the last n columns of the image calls flushBuffer() before it returns.
FlushedOnArrival(n) ==
    \A Px \in DOMAIN fb :
        (/\ IsParallelGen /\ gen' = gen
         /\ Px >= width - n
         /\ fb[Px][0].gen # gen
         /\ fb'[Px][0].gen = gen)
          => display' = fb'

CeilDiv(a, b) == IF a <= 0 THEN 0 ELSE (a + b - 1) \div b

\* C16: a worker with offset xInit and stride N on a canvas W by H posts
\* the columns xInit, xInit+N, ... in strictly increasing order, never
\* more than ceil((W - xInit)/N) of them (none when xInit >= W); its loop
\* has ended exactly when it has posted that many; every posted column
\* carries H intensities, and no pixel takes more than K turns of the
\* escape loop.
C16_TaskOutputShape ==
    \A k \in DOMAIN renderThreads :
        LET w     == renderThreads[k]
            W     == w.data.width
            N     == w.data.xSkip
            total == CeilDiv(W - w.data.xInit, N)
        IN  /\ Len(w.sent) <= total
            /\ \A j \in DOMAIN w.sent : w.sent[j] = w.data.xInit + (j - 1) * N
            /\ \A j \in DOMAIN w.sent : j > 1 => w.sent[j - 1] < w.sent[j]
            /\ (w.alive /\ w.Px >= W) <=> (w.alive /\ Len(w.sent) = total)
            /\ \A j \in DOMAIN w.queue :
                   /\ Len(w.queue[j].line) = w.data.height
                   /\ \E i \in DOMAIN w.sent : w.sent[i] = w.queue[j].Px
                   /\ \A row \in DOMAIN w.queue[j].line :
                          EscapeTime(w.data, w.queue[j].Px, row - 1)
                              \in 0 .. w.data.iterations

\* On a canvas 3 by 2 the loops of two workers have ended, the first
\* having posted two columns and the second one, the last of them still
\* undelivered.
C16_Witness ==
    /\ Len(renderThreads) = 2
    /\ renderThreads[1].data.width = 3 /\ renderThreads[1].data.height = 2
    /\ renderThreads[1].sent = <<0, 2>>
    /\ renderThreads[2].sent = <<1>>
    /\ \A k \in 1 .. 2 : renderThreads[k].alive /\ renderThreads[k].Px >= 3
    /\ renderThreads[1].queue # <<>>
    /\ Len(renderThreads[1].queue[Len(renderThreads[1].queue)].line) = 2

\* --------------------------------------------------------------- C17

\* Every column of buf is whole: its rows were all written by tasks of one
\* render() call, or are all blank.
WholeColumns(buf) ==
    \A x \in DOMAIN buf : \A y1, y2 \in DOMAIN buf[x] :
        buf[x][y1].gen = buf[x][y2].gen

\* C17: between any two handlers (a message callback, a render() call, a
\* deferred flush) every column of the framebuffer has all its H rows
\* written by one generation or none written, and so has every column a
\* flush has put on the display.
C17_ColumnAtomicity == WholeColumns(fb) /\ WholeColumns(display)

\* On a canvas two rows high a flush has shown a partial image: one column
\* of the current generation whole, another still blank.
C17_Witness ==
    /\ canvasH = 2 /\ gen > 0
    /\ \E x1, x2 \in DOMAIN fb :
           /\ \A y \in DOMAIN fb[x1] : fb[x1][y].gen = gen
           /\ \A y \in DOMAIN fb[x2] : IsBlank(fb[x2][y])
           /\ \A y \in DOMAIN display[x1] : display[x1][y].gen = gen
           /\ \A y \in DOMAIN display[x2] : IsBlank(display[x2][y])

\* --------------------------------------------------------------- C18

\* C18 (as claimed, for the direct path): a render() whose callbacks found
\* more than 50 ms elapsed at two columns or more, and so deferred a first
\* flush that fell due before the column loop had ended, has put pixels of
\* its generation on the display by the time the loop has ended.
C18_ProgressiveOnBothPaths ==
    [][(gen' = gen + 1 /\ timers' >= timers + 2)
         => \E c \in Cells : display'[c[1]][c[2]].gen = gen']_vars

\* --------------------------------------------------------------- C19

=============================================================================
